---- MODULE Spec2Model ----
(***************************************************************************)
(* Verification model of the puzzle solvers of mhuxtable/aoc2022.          *)
(* Every day is an independent program; each has its own variables and     *)
(* its own specification (SpecDayNN).  The variables of the other days     *)
(* stay at their idle value while one day runs.                            *)
(***************************************************************************)
EXTENDS Integers, Sequences, FiniteSets, TLC

VARIABLES
    \* ---- day 11 (src/bin/11.rs) ----
    input11,        \* the parsed text: one raw monkey description per monkey
    part11,         \* 1 = part_one, 2 = part_two, 0 = not running
    monkeys,        \* Vec<Monkey> without the items: test, op, if_true, if_false
    items,          \* monkeys[i].items: stack of Modular values
    inspected,      \* play_game: inspected[i]
    round,          \* play_game: rounds completed so far
    turn,           \* play_game: index i of the monkey whose turn is next
    thrown,         \* next_monkey of every item inspected in the last turn
    answer11,       \* value returned by part_one / part_two (-1 while running)
    refItems,       \* reference simulation: exact worry levels
    refInspected,   \* reference simulation: inspection counts
    refThrown,      \* reference simulation: targets of the last turn
    \* ---- day 1 (src/bin/01.rs) ----
    input01,        \* the lines of the input
    line01,         \* parse: number of lines consumed
    elves,          \* parse: Vec<Vec<u32>>, one list per elf
    sums01,         \* parse: the returned sums (<<>> until computed)
    answer01,       \* value returned by part_two (-1 while running)
    pc01,           \* "idle", "parse", "sum", "done"
    \* ---- day 10 (src/bin/10.rs) ----
    program10,      \* the parsed instructions
    cpu,            \* struct CPU (instrs is the number of instructions taken)
    score,          \* part_one: score
    pc10,           \* "idle", "loop", "done", "panic"
    \* ---- day 15 (src/bin/15.rs) ----
    detections,     \* parse: Vec<Detection>
    regions,        \* part_one: the sorted (left, right) ranges of the row
    beacons_in_row, \* part_one: x of the beacons in the row, descending
    monitored,      \* part_one: monitored
    cur_x,          \* part_one: cur_x
    region15,       \* part_one: number of regions already scanned
    answer15,       \* value returned by part_one (-1 while running)
    pc15,           \* "idle", "start", "scan", "done"
    \* ---- day 14 (src/bin/14.rs) ----
    lines14,        \* parse: Vec<Line>, each a list of points
    with_floor,     \* FALSE in part_one, TRUE in part_two
    grid,           \* Grid<Space>: [values, width]
    min_x14,        \* the min_x captured by make_point
    last_grain,     \* what the last add_grain returned
    answer14,       \* value returned by part_one / part_two (-1 while running)
    pc14,           \* "idle", "draw", "pour", "count", "done"
    \* ---- day 12 (src/bin/12.rs) ----
    map12,          \* struct Map: elevations, row_length, start, end
    part12,         \* 1 = part_one, 2 = part_two, 0 = not running
    fringe,         \* astar_from_point: fringe
    fs,             \* astar_from_point: fs
    gs,             \* astar_from_point: gs
    answer12,       \* value returned by part_one / part_two (-1 while running)
    pc12,           \* "idle", "start", "loop", "done"
    \* ---- day 18 (src/bin/18.rs) ----
    coords18,       \* parse: Vec<Coord>
    build18,        \* "debug" (overflow checks) or "release" (wrapping)
    bounds18,       \* part_two: x_min, x_max, y_min, y_max, z_min, z_max
    states18,       \* part_two: states
    faces18,        \* part_two: faces
    seen18,         \* exterior_surface_area: seen
    cube18,         \* exterior_surface_area: cubes whose planes are done
    possible_air_gap, \* part_two: possible_air_gap
    changed18,      \* part_two: changed
    answer18,       \* value returned by part_two (-1 while running)
    pc18,           \* "idle", "start", "area", "prune", "done", "panic"
    \* ---- day 17 (src/bin/17.rs) ----
    directions,     \* parse: Vec<JetBlast>
    pc17,           \* "idle", "search", "direct", "done"
    tree,           \* find_first_cycle: tree
    jet_blast_count, \* find_first_cycle: jet_blast_count
    top_rock_in_column, \* find_first_cycle: top_rock_in_column
    states17,       \* find_first_cycle: states, the hash of every shape_drop so far
    step_max_heights, \* find_first_cycle: step_max_heights
    shape_drop,     \* find_first_cycle: shape_drop of the next iteration
    cycle17,        \* part_two: (cycle_end, cycle_start), <<>> before the return
    p1_tree,        \* part_one: tree
    p1_jets,        \* part_one: jets taken from jet_blasts
    p1_max_height,  \* part_one: max_height
    p1_i,           \* part_one: i of the next iteration
    \* ---- shared grid helper (src/helpers.rs) ----
    new_width,      \* Grid::new: the width argument
    new_height,     \* Grid::new: the height argument
    hgrid,          \* the Grid<bool> under test: [values, width]
    probe_p,        \* the point written through point_mut
    probe_q,        \* the point read through point
    oob_p,          \* is_out_of_bounds(probe_p)
    oob_q,          \* is_out_of_bounds(probe_q)
    read_q,         \* the value point(probe_q) returned after the write
    pc00,           \* "idle", "new", "probe", "write", "read", "done", "panic"
    \* ---- day 24 (src/bin/24.rs) ----
    input24,        \* the lines between the top and the bottom wall
    part24,         \* 1 = part_one, 2 = part_two, 0 = not running
    blizzards,      \* Puzzle.blizzards: the set of (x, y, direction)
    dimensions,     \* Puzzle.dimensions: (width, height)
    start24,        \* solve: start
    reachability,   \* solve: per cell "now" (holds steps), "old" or "none"
    steps,          \* solve: steps (exact up to MaxSteps24)
    pass24,         \* part_two: passes completed
    steps_sum,      \* part_two: steps
    answer24,       \* value returned by part_one / part_two (-1 while running)
    pc24            \* "idle", "parse", "solve", "loop", "return", "done"

v11 == <<input11, part11, monkeys, items, inspected, round, turn, thrown,
         answer11, refItems, refInspected, refThrown>>

v01 == <<input01, line01, elves, sums01, answer01, pc01>>

v10 == <<program10, cpu, score, pc10>>

v15 == <<detections, regions, beacons_in_row, monitored, cur_x, region15,
         answer15, pc15>>

v14 == <<lines14, with_floor, grid, min_x14, last_grain, answer14, pc14>>

v12 == <<map12, part12, fringe, fs, gs, answer12, pc12>>

v18 == <<coords18, build18, bounds18, states18, faces18, seen18, cube18,
         possible_air_gap, changed18, answer18, pc18>>

v17 == <<directions, pc17, tree, jet_blast_count, top_rock_in_column, states17,
         step_max_heights, shape_drop, cycle17, p1_tree, p1_jets,
         p1_max_height, p1_i>>

v00 == <<new_width, new_height, hgrid, probe_p, probe_q, oob_p, oob_q,
         read_q, pc00>>

v24 == <<input24, part24, blizzards, dimensions, start24, reachability,
         steps, pass24, steps_sum, answer24, pc24>>

vars == <<v00, v01, v10, v11, v12, v14, v15, v17, v18, v24>>

\* The variables of the days other than the one that runs
others00 == <<v01, v10, v11, v12, v14, v15, v17, v18, v24>>
others01 == <<v00, v10, v11, v12, v14, v15, v17, v18, v24>>
others10 == <<v00, v01, v11, v12, v14, v15, v17, v18, v24>>
others11 == <<v00, v01, v10, v12, v14, v15, v17, v18, v24>>
others12 == <<v00, v01, v10, v11, v14, v15, v17, v18, v24>>
others14 == <<v00, v01, v10, v11, v12, v15, v17, v18, v24>>
others15 == <<v00, v01, v10, v11, v12, v14, v17, v18, v24>>
others17 == <<v00, v01, v10, v11, v12, v14, v15, v18, v24>>
others18 == <<v00, v01, v10, v11, v12, v14, v15, v17, v24>>
others24 == <<v00, v01, v10, v11, v12, v14, v15, v17, v18>>

\* The value of a day's variables while that day does not run
Idle01 ==
    /\ input01 = <<>> /\ line01 = 0 /\ elves = <<>> /\ sums01 = <<>>
    /\ answer01 = -1 /\ pc01 = "idle"

Idle11 ==
    /\ input11 = <<>> /\ part11 = 0 /\ monkeys = <<>> /\ items = <<>>
    /\ inspected = <<>> /\ round = 0 /\ turn = 0 /\ thrown = <<>>
    /\ answer11 = -1 /\ refItems = <<>> /\ refInspected = <<>>
    /\ refThrown = <<>>

Idle10 ==
    /\ program10 = <<>> /\ cpu = <<>> /\ score = 0 /\ pc10 = "idle"

Idle15 ==
    /\ detections = <<>> /\ regions = <<>> /\ beacons_in_row = <<>>
    /\ monitored = 0 /\ cur_x = 0 /\ region15 = 0 /\ answer15 = -1
    /\ pc15 = "idle"

Idle14 ==
    /\ lines14 = <<>> /\ with_floor = FALSE /\ grid = <<>> /\ min_x14 = 0
    /\ last_grain = <<>> /\ answer14 = -1 /\ pc14 = "idle"

Idle12 ==
    /\ map12 = <<>> /\ part12 = 0 /\ fringe = {} /\ fs = <<>> /\ gs = <<>>
    /\ answer12 = -1 /\ pc12 = "idle"

Idle18 ==
    /\ coords18 = <<>> /\ build18 = "" /\ bounds18 = <<>> /\ states18 = <<>>
    /\ faces18 = 0 /\ seen18 = <<>> /\ cube18 = 0
    /\ possible_air_gap = {} /\ changed18 = FALSE
    /\ answer18 = -1 /\ pc18 = "idle"

Idle17 ==
    /\ directions = <<>> /\ pc17 = "idle" /\ tree = {} /\ jet_blast_count = 0
    /\ top_rock_in_column = <<>> /\ states17 = <<>> /\ step_max_heights = <<>>
    /\ shape_drop = 0 /\ cycle17 = <<>> /\ p1_tree = {} /\ p1_jets = 0
    /\ p1_max_height = 0 /\ p1_i = 0

Idle00 ==
    /\ new_width = 0 /\ new_height = 0
    /\ hgrid = [values |-> <<>>, width |-> 0]
    /\ probe_p = [x |-> 0, y |-> 0] /\ probe_q = [x |-> 0, y |-> 0]
    /\ oob_p = FALSE /\ oob_q = FALSE /\ read_q = FALSE
    /\ pc00 = "idle"

Idle24 ==
    /\ input24 = <<>> /\ part24 = 0 /\ blizzards = {}
    /\ dimensions = <<0, 0>> /\ start24 = "TopLeft" /\ reachability = <<>>
    /\ steps = 0 /\ pass24 = 0 /\ steps_sum = 0 /\ answer24 = -1
    /\ pc24 = "idle"

\* Only the named day runs
Only00 == Idle01 /\ Idle10 /\ Idle11 /\ Idle12 /\ Idle14 /\ Idle15 /\ Idle17 /\ Idle18 /\ Idle24
Only01 == Idle00 /\ Idle10 /\ Idle11 /\ Idle12 /\ Idle14 /\ Idle15 /\ Idle17 /\ Idle18 /\ Idle24
Only10 == Idle00 /\ Idle01 /\ Idle11 /\ Idle12 /\ Idle14 /\ Idle15 /\ Idle17 /\ Idle18 /\ Idle24
Only11 == Idle00 /\ Idle01 /\ Idle10 /\ Idle12 /\ Idle14 /\ Idle15 /\ Idle17 /\ Idle18 /\ Idle24
Only12 == Idle00 /\ Idle01 /\ Idle10 /\ Idle11 /\ Idle14 /\ Idle15 /\ Idle17 /\ Idle18 /\ Idle24
Only14 == Idle00 /\ Idle01 /\ Idle10 /\ Idle11 /\ Idle12 /\ Idle15 /\ Idle17 /\ Idle18 /\ Idle24
Only15 == Idle00 /\ Idle01 /\ Idle10 /\ Idle11 /\ Idle12 /\ Idle14 /\ Idle17 /\ Idle18 /\ Idle24
Only17 == Idle00 /\ Idle01 /\ Idle10 /\ Idle11 /\ Idle12 /\ Idle14 /\ Idle15 /\ Idle18 /\ Idle24
Only18 == Idle00 /\ Idle01 /\ Idle10 /\ Idle11 /\ Idle12 /\ Idle14 /\ Idle15 /\ Idle17 /\ Idle24
Only24 == Idle00 /\ Idle01 /\ Idle10 /\ Idle11 /\ Idle12 /\ Idle14 /\ Idle15 /\ Idle17 /\ Idle18

----------------------------------------------------------------------------
(* Generic helpers *)

Min(a, b) == IF a < b THEN a ELSE b
Max(a, b) == IF a > b THEN a ELSE b

\* s[lo] + ... + s[hi], by halving (the recursion stays shallow)
RECURSIVE SumRange(_, _, _)
SumRange(s, lo, hi) ==
    IF lo > hi THEN 0
    ELSE IF lo = hi THEN s[lo]
    ELSE LET mid == (lo + hi) \div 2
         IN SumRange(s, lo, mid) + SumRange(s, mid + 1, hi)

\* Iterator::sum
SeqSum(s) == SumRange(s, 1, Len(s))

RECURSIVE ProductUpTo(_, _)
ProductUpTo(s, n) == IF n = 0 THEN 1 ELSE s[n] * ProductUpTo(s, n - 1)

\* Iterator::product
SeqProduct(s) == ProductUpTo(s, Len(s))

\* Insert x into the ascending sequence s (stable: after equal elements).
RECURSIVE InsertAsc(_, _)
InsertAsc(x, s) ==
    IF s = <<>> THEN <<x>>
    ELSE IF x < Head(s) THEN <<x>> \o s
    ELSE <<Head(s)>> \o InsertAsc(x, Tail(s))

\* slice::sort on integers
RECURSIVE SortAsc(_)
SortAsc(s) == IF s = <<>> THEN <<>> ELSE InsertAsc(Head(s), SortAsc(Tail(s)))

\* slice::reverse
Reverse(s) == [k \in 1..Len(s) |-> s[Len(s) + 1 - k]]

----------------------------------------------------------------------------
(* Day 11: monkey in the middle                                            *)

\* Bounds of the day-11 model
MaxRounds11 == 20       \* rounds simulated at most
MaxExact11 == 40000     \* the reference stops before an exact worry level
                        \* leaves TLC's integers

\* Modular::new
ModularNew(remainder, divisor) ==
    [remainder |-> IF remainder > divisor THEN remainder % divisor
                   ELSE remainder,
     divisor |-> divisor]

\* impl Add for Modular
ModularAdd(l, r) ==
    [remainder |-> (l.remainder + r.remainder) % l.divisor,
     divisor |-> l.divisor]

\* impl Mul for Modular
ModularMul(l, r) ==
    [remainder |-> (l.remainder * r.remainder) % l.divisor,
     divisor |-> l.divisor]

\* RHS::get
RhsGet(rhs, old) == IF rhs.kind = "Old" THEN old ELSE rhs.x

\* Operation::compute
OperationCompute(op, old) ==
    IF op.op = "MUL" THEN ModularMul(old, RhsGet(op.rhs, old))
    ELSE ModularAdd(old, RhsGet(op.rhs, old))

\* parse: the product of all "Test: divisible by" values
TestDivisorSkipFirst(inp) ==
    SeqProduct([k \in 1..(Len(inp) - 1) |-> inp[k + 1].test])
TestDivisor(inp) == SeqProduct([k \in 1..Len(inp) |-> inp[k].test])

\* parse_op
ParseOp(raw, test_divisor) ==
    [op |-> IF raw.op = "*" THEN "MUL" ELSE "ADD",
     rhs |-> IF raw.rhs_old
             THEN [kind |-> "Old", x |-> ModularNew(0, test_divisor)]
             ELSE [kind |-> "Literal", x |-> ModularNew(raw.rhs, test_divisor)]]

\* parse: the monkeys (numbered from 0) and their starting items
ParseMonkeys(inp) ==
    [m \in 0..(Len(inp) - 1) |->
        [test |-> inp[m + 1].test,
         op |-> ParseOp(inp[m + 1], TestDivisor(inp)),
         if_true |-> inp[m + 1].if_true,
         if_false |-> inp[m + 1].if_false]]

ParseItems(inp) ==
    [m \in 0..(Len(inp) - 1) |->
        [k \in 1..Len(inp[m + 1].items) |->
            ModularNew(inp[m + 1].items[k], TestDivisor(inp))]]

\* the worry_update closures of part_one and part_two
WorryUpdate(part, x) ==
    IF part = 1 THEN [remainder |-> x.remainder \div 3, divisor |-> x.divisor]
    ELSE x

\* play_game: the while-let loop of one monkey; st = [items, thrown]
RECURSIVE InspectAll(_, _, _, _)
InspectAll(st, ms, i, part) ==
    IF st.items[i] = <<>> THEN st
    ELSE LET stack == st.items[i]
             item == stack[Len(stack)]
             worry_level == WorryUpdate(part, OperationCompute(ms[i].op, item))
             next_monkey == IF worry_level.remainder % ms[i].test = 0
                            THEN ms[i].if_true ELSE ms[i].if_false
             popped == [st.items EXCEPT ![i] = SubSeq(stack, 1, Len(stack) - 1)]
         IN InspectAll([items |-> [popped EXCEPT ![next_monkey] =
                                        Append(@, worry_level)],
                        thrown |-> Append(st.thrown, next_monkey)],
                       ms, i, part)

\* Reference: the same game on exact, unreduced worry levels.
RefCompute(raw, old) ==
    LET r == IF raw.rhs_old THEN old ELSE raw.rhs
    IN IF raw.op = "*" THEN old * r ELSE old + r

RefUpdate(part, x) == IF part = 1 THEN x \div 3 ELSE x

RECURSIVE RefInspectAll(_, _, _, _)
RefInspectAll(st, inp, i, part) ==
    IF st.items[i] = <<>> THEN st
    ELSE LET stack == st.items[i]
             item == stack[Len(stack)]
             worry == RefUpdate(part, RefCompute(inp[i + 1], item))
             next == IF worry % inp[i + 1].test = 0
                     THEN inp[i + 1].if_true ELSE inp[i + 1].if_false
             popped == [st.items EXCEPT ![i] = SubSeq(stack, 1, Len(stack) - 1)]
         IN RefInspectAll([items |-> [popped EXCEPT ![next] = Append(@, worry)],
                           thrown |-> Append(st.thrown, next)],
                          inp, i, part)

\* the rounds argument of play_game
Rounds11(part) == IF part = 1 THEN 20 ELSE 10000

\* Inputs: three monkeys, none of which throws to itself; every monkey has
\* at least one starting item (parse panics on an empty list).
Tests11 == {<<2, 3, 5>>, <<3, 5, 7>>, <<7, 2, 3>>}
Ops11 == {[op |-> "*", rhs_old |-> TRUE, rhs |-> 0],
          [op |-> "*", rhs_old |-> FALSE, rhs |-> 3],
          [op |-> "+", rhs_old |-> FALSE, rhs |-> 1],
          [op |-> "+", rhs_old |-> FALSE, rhs |-> 4]}
Starts11 == {<<<<1, 7>>, <<4>>, <<30>>>>, <<<<105>>, <<42, 9>>, <<5>>>>,
             <<<<3>>, <<11>>, <<2, 64>>>>}
Others11(m) == (0..2) \ {m}

\* if_true / if_false of the three monkeys: two different other monkeys each
Targets11 ==
    {f \in [1..3 -> (0..2) \X (0..2)] :
        \A k \in 1..3 : /\ f[k][1] \in Others11(k - 1)
                        /\ f[k][2] \in Others11(k - 1)
                        /\ f[k][1] # f[k][2]}

Inputs11 ==
    { [k \in 1..3 |->
         [items |-> st[k], op |-> ops[k].op, rhs_old |-> ops[k].rhs_old,
          rhs |-> ops[k].rhs,
          test |-> ts[k], if_true |-> tg[k][1], if_false |-> tg[k][2]]] :
      st \in Starts11, ops \in [1..3 -> Ops11], ts \in Tests11,
      tg \in Targets11 }

Init11 ==
    /\ input11 \in Inputs11
    /\ part11 \in {1, 2}
    /\ monkeys = ParseMonkeys(input11)
    /\ items = ParseItems(input11)
    /\ inspected = [m \in 0..2 |-> 0]
    /\ round = 0 /\ turn = 0 /\ thrown = <<>> /\ answer11 = -1
    /\ refItems = [m \in 0..2 |-> input11[m + 1].items]
    /\ refInspected = [m \in 0..2 |-> 0]
    /\ refThrown = <<>>
    /\ Only11

\* play_game: one iteration of `for i in 0..monkeys.len()`
MonkeyTurn ==
    /\ part11 # 0 /\ answer11 = -1
    /\ round < Rounds11(part11) /\ round < MaxRounds11
    /\ \A k \in 1..Len(refItems[turn]) : refItems[turn][k] <= MaxExact11
    /\ LET st == InspectAll([items |-> items, thrown |-> <<>>],
                            monkeys, turn, part11)
           rf == RefInspectAll([items |-> refItems, thrown |-> <<>>],
                               input11, turn, part11)
       IN /\ inspected' = [inspected EXCEPT ![turn] = @ + Len(items[turn])]
          /\ items' = st.items
          /\ thrown' = st.thrown
          /\ refInspected' = [refInspected EXCEPT ![turn] = @ + Len(refItems[turn])]
          /\ refItems' = rf.items
          /\ refThrown' = rf.thrown
    /\ turn' = (turn + 1) % 3
    /\ round' = IF turn = 2 THEN round + 1 ELSE round
    /\ UNCHANGED <<input11, part11, monkeys, answer11>>
    /\ UNCHANGED others11

\* play_game's sort and reverse, and the product taken by part_one / part_two
PlayGameReturn ==
    /\ part11 # 0 /\ answer11 = -1
    /\ round = Min(Rounds11(part11), MaxRounds11)
    /\ LET sorted == Reverse(SortAsc([k \in 1..3 |-> inspected[k - 1]]))
       IN answer11' = sorted[1] * sorted[2]
    /\ UNCHANGED <<input11, part11, monkeys, items, inspected, round, turn,
                   thrown, refItems, refInspected, refThrown>>
    /\ UNCHANGED others11

Next11 == MonkeyTurn \/ PlayGameReturn

SpecDay11 == Init11 /\ [][Next11]_vars

\* C1: in part two (identity worry update) the game on worry levels reduced
\* modulo the product of the test divisors throws every item of every turn
\* to the same monkey as the game on exact worry levels, and both have
\* the same inspection counts after any number of turns.
C1_ModularSameAsExact ==
    part11 = 2 => /\ thrown = refThrown
                  /\ inspected = refInspected

\* C1 witness: part two, some rounds played, an item was thrown in the last
\* turn and some exact worry level is beyond the product of the divisors.
C1_Witness ==
    /\ part11 = 2 /\ round >= 3 /\ Len(thrown) >= 2
    /\ \E m \in 0..2 : \E k \in 1..Len(refItems[m]) :
          refItems[m][k] > 2 * TestDivisor(input11)
    /\ \E m \in 0..2 : inspected[m] >= 4

\* C2: in part one (worry level divided by 3 after each inspection) the game
\* on the reduced remainders throws every item to the same monkey and has
\* the same inspection counts as the game dividing the exact worry level.
C2_PartOneSameAsExact ==
    part11 = 1 => /\ thrown = refThrown
                  /\ inspected = refInspected

----------------------------------------------------------------------------
(* Day 1: calorie counting                                                 *)

\* Bounds of the day-1 model
MaxGroups01 == 4        \* blank-line-separated groups in the input

\* A line of the input: blank, or a number
BlankLine == [blank |-> TRUE, n |-> 0]
NumLine(n) == [blank |-> FALSE, n |-> n]

\* The text of a list of groups: the numbers of each group on their own
\* lines, a blank line between two groups.
RECURSIVE GroupsToLines(_)
GroupsToLines(groups) ==
    IF groups = <<>> THEN <<>>
    ELSE [k \in 1..Len(Head(groups)) |-> NumLine(Head(groups)[k])]
         \o (IF Len(groups) > 1 THEN <<BlankLine>> ELSE <<>>)
         \o GroupsToLines(Tail(groups))

Groups01 == {<<1>>, <<2>>, <<5>>, <<2, 2>>, <<1, 5>>}

Inputs01 ==
    UNION { {GroupsToLines(groups) : groups \in [1..n -> Groups01]} :
            n \in 3..MaxGroups01 }

Init01 ==
    /\ input01 \in Inputs01
    /\ line01 = 0
    /\ elves = <<<<>>>>
    /\ sums01 = <<>>
    /\ answer01 = -1
    /\ pc01 = "parse"
    /\ Only01

\* parse: one iteration of `for line in input.lines()`
ParseLine01 ==
    /\ pc01 = "parse" /\ line01 < Len(input01)
    /\ LET line == input01[line01 + 1]
       IN elves' = IF line.blank THEN Append(elves, <<>>)
                   ELSE [elves EXCEPT ![Len(elves)] = Append(@, line.n)]
    /\ line01' = line01 + 1
    /\ UNCHANGED <<input01, sums01, answer01, pc01>>
    /\ UNCHANGED others01

\* parse: the per-elf sums
ParseSums01 ==
    /\ pc01 = "parse" /\ line01 = Len(input01)
    /\ sums01' = [k \in 1..Len(elves) |-> SeqSum(elves[k])]
    /\ pc01' = "sum"
    /\ UNCHANGED <<input01, line01, elves, answer01>>
    /\ UNCHANGED others01

\* part_two: elves[elves.len() - 3..elves.len()].iter().sum()
PartTwo01 ==
    /\ pc01 = "sum"
    /\ answer01' = SeqSum(SubSeq(sums01, Len(sums01) - 2, Len(sums01)))
    /\ pc01' = "done"
    /\ UNCHANGED <<input01, line01, elves, sums01>>
    /\ UNCHANGED others01

Next01 == ParseLine01 \/ ParseSums01 \/ PartTwo01

SpecDay01 == Init01 /\ [][Next01]_vars

\* The sum of the three largest entries of a list of totals
TopThree(totals) == SeqSum(SubSeq(Reverse(SortAsc(totals)), 1, 3))

\* C6: part_two returns the sum of the three largest per-elf totals,
\* whatever the order of the groups in the input.
C6_PartTwoIsTopThree ==
    pc01 = "done" => answer01 = TopThree(sums01)

----------------------------------------------------------------------------
(* Day 10: cathode-ray tube                                                *)

CRT_SIZE == 240
CRT_ROWS == 6
CRT_WIDTH == CRT_SIZE \div CRT_ROWS
MAX_SCORE_CYCLE == 220

\* Bounds of the day-10 model: the programs run for MinCycles10..MaxCycles10
\* cycles
MinCycles10 == 218
MaxCycles10 == 223

Noop == [op |-> "noop", v |-> 0]
Addx(v) == [op |-> "addx", v |-> v]

\* Instruction::ticks
Ticks(i) == IF i.op = "noop" THEN 1 ELSE 2

\* Option<Instruction>
NoInstruction == [some |-> FALSE, op |-> "noop", v |-> 0]
SomeInstruction(i) == [some |-> TRUE, op |-> i.op, v |-> i.v]

\* CPU::new
CpuNew ==
    [instrs |-> 0, cycle |-> 0, reg_x |-> 1,
     current_instruction |-> NoInstruction, remaining_ticks |-> 0,
     crt |-> [k \in 0..(CRT_SIZE - 1) |-> FALSE]]

\* CPU::tick, first half: fetch the next instruction when the current one
\* has no ticks left
CpuFetch(c, prog) ==
    IF c.remaining_ticks # 0 THEN c
    ELSE IF c.instrs < Len(prog)
         THEN [c EXCEPT !.current_instruction = SomeInstruction(prog[c.instrs + 1]),
                        !.remaining_ticks = Ticks(prog[c.instrs + 1]),
                        !.instrs = c.instrs + 1]
         ELSE [c EXCEPT !.current_instruction = NoInstruction]

\* CPU::tick: the new CPU and the returned (more, cycle, x)
CpuTick(c0, prog) ==
    LET c == CpuFetch(c0, prog)
    IN IF ~c.current_instruction.some
       THEN [cpu |-> c, more |-> FALSE, cycle |-> c.cycle, x |-> c.reg_x]
       ELSE LET current_pixel == c.cycle % CRT_WIDTH
                visible == /\ (c.reg_x - 1) <= current_pixel
                           /\ (c.reg_x + 1) >= current_pixel
                i == c.current_instruction
                reg_x == IF i.op = "addx" /\ c.remaining_ticks = 1
                         THEN c.reg_x + i.v ELSE c.reg_x
            IN [cpu |-> [c EXCEPT !.crt[c.cycle % CRT_SIZE] = visible,
                                  !.reg_x = reg_x,
                                  !.cycle = c.cycle + 1,
                                  !.remaining_ticks = c.remaining_ticks - 1],
                more |-> TRUE, cycle |-> c.cycle + 1, x |-> c.reg_x]

\* The inputs: a pattern of instructions repeated
Repeat(pattern, n) == [k \in 1..n |-> pattern[((k - 1) % Len(pattern)) + 1]]

TotalTicks(prog) == SeqSum([k \in 1..Len(prog) |-> Ticks(prog[k])])

Patterns10 ==
    {<<Noop>>, <<Addx(1)>>, <<Addx(2), Noop>>, <<Noop, Addx(-1)>>,
     <<Addx(3), Addx(-3), Noop>>}

Inputs10 ==
    {prog \in {Repeat(p, n) : p \in Patterns10, n \in 1..MaxCycles10} :
        /\ TotalTicks(prog) >= MinCycles10
        /\ TotalTicks(prog) <= MaxCycles10}

Init10 ==
    /\ program10 \in Inputs10
    /\ cpu = CpuNew
    /\ score = 0
    /\ pc10 = "loop"
    /\ Only10

\* part_one: one iteration of the loop
PartOneStep10 ==
    /\ pc10 = "loop"
    /\ LET t == CpuTick(cpu, program10)
           scored == t.cycle % 40 = 20
       IN /\ cpu' = t.cpu
          /\ score' = IF scored THEN score + t.x * t.cycle ELSE score
          /\ pc10' = IF ~scored /\ t.cycle > MAX_SCORE_CYCLE THEN "done"
                     ELSE IF ~t.more
                          THEN (IF t.cycle < MAX_SCORE_CYCLE THEN "panic"
                                ELSE "done")
                          ELSE "loop"
    /\ UNCHANGED program10
    /\ UNCHANGED others10

Next10 == PartOneStep10

SpecDay10 == Init10 /\ [][Next10]_vars

\* The value of register X during cycle c (cycles count from 1): 1 plus the
\* arguments of the addx instructions that finished before cycle c.
XDuring(prog, c) ==
    LET ticks == [k \in 1..Len(prog) |-> Ticks(prog[k])]
        finished(k) == SumRange(ticks, 1, k) < c
    IN 1 + SeqSum([k \in 1..Len(prog) |->
                     IF finished(k) THEN prog[k].v ELSE 0])

SignalSum(prog) ==
    LET S(c) == c * XDuring(prog, c)
    IN S(20) + S(60) + S(100) + S(140) + S(180) + S(220)

\* C7: for a program of at least 220 cycles part_one returns the sum of
\* c * X(c) over c = 20, 60, 100, 140, 180, 220, each cycle counted once.
C7_SixSignalStrengths ==
    (pc10 = "done" /\ TotalTicks(program10) >= MAX_SCORE_CYCLE)
        => score = SignalSum(program10)

----------------------------------------------------------------------------
(* Day 15: beacon exclusion zone                                           *)

\* const SEARCH_Y under cfg!(test)
SEARCH_Y == 10

\* i64::MIN stands below every coordinate; TLC's integers have 32 bits
I64_MIN == -2147483647

\* Bounds of the day-15 model
MaxDetections15 == 3

Abs(n) == IF n < 0 THEN -n ELSE n

\* Point::manhattan
Manhattan(p, q) == Abs(p.x - q.x) + Abs(p.y - q.y)

\* with_distances
WithDistances(ds) ==
    [k \in 1..Len(ds) |->
        [detection |-> ds[k], distance |-> Manhattan(ds[k].sensor, ds[k].beacon)]]

\* slice::sort_by_key(|r| r.0): stable insertion by the left end
RECURSIVE InsertByLeft(_, _)
InsertByLeft(r, s) ==
    IF s = <<>> THEN <<r>>
    ELSE IF r[1] < Head(s)[1] THEN <<r>> \o s
    ELSE <<Head(s)>> \o InsertByLeft(r, Tail(s))

RECURSIVE SortByLeft(_)
SortByLeft(s) ==
    IF s = <<>> THEN <<>>
    ELSE InsertByLeft(s[Len(s)], SortByLeft(SubSeq(s, 1, Len(s) - 1)))

\* detections_for_row
DetectionsForRow(wd, y) ==
    LET relevant(e) == /\ e.detection.sensor.y - e.distance <= y
                       /\ e.detection.sensor.y + e.distance >= y
        relevant_sensors == SelectSeq(wd, relevant)
        region(e) ==
            LET dy == Abs(e.detection.sensor.y - y)
            IN <<e.detection.sensor.x - e.distance + dy,
                 e.detection.sensor.x + e.distance - dy>>
    IN SortByLeft([k \in 1..Len(relevant_sensors) |->
                      region(relevant_sensors[k])])

\* part_one: the beacons of the row, one entry per detection, sorted and
\* reversed
BeaconsInRow(ds) ==
    LET inRow(d) == d.beacon.y = SEARCH_Y
        hits == SelectSeq(ds, inRow)
    IN Reverse(SortAsc([k \in 1..Len(hits) |-> hits[k].beacon.x]))

\* part_one: `for i in start..=*right`; st = [beacons, monitored]
RECURSIVE ScanRange(_, _, _)
ScanRange(st, i, right) ==
    IF i > right THEN st
    ELSE IF st.beacons # <<>> /\ st.beacons[Len(st.beacons)] = i
         THEN ScanRange([st EXCEPT !.beacons =
                             SubSeq(st.beacons, 1, Len(st.beacons) - 1)],
                        i + 1, right)
         ELSE ScanRange([st EXCEPT !.monitored = st.monitored + 1],
                        i + 1, right)

\* Inputs: sensors with their closest beacon
SensorPos15 == {[x |-> x, y |-> y] : x \in {2, 4, 6}, y \in {9, 12}}
BeaconPos15 ==
    {[x |-> 2, y |-> 10], [x |-> 4, y |-> 10], [x |-> 6, y |-> 10],
     [x |-> 3, y |-> 11], [x |-> 5, y |-> 8]}

\* Every sensor reports a beacon no farther than any other beacon of the
\* list, and the sensors are at different places.
ValidDetections(ds) ==
    /\ \A j, k \in 1..Len(ds) : j # k => ds[j].sensor # ds[k].sensor
    /\ \A j, k \in 1..Len(ds) :
          Manhattan(ds[j].sensor, ds[k].beacon)
              >= Manhattan(ds[j].sensor, ds[j].beacon)

Inputs15 ==
    UNION { {ds \in [1..n -> [sensor : SensorPos15, beacon : BeaconPos15]] :
                ValidDetections(ds)} : n \in 1..MaxDetections15 }

Init15 ==
    /\ detections \in Inputs15
    /\ regions = <<>>
    /\ beacons_in_row = <<>>
    /\ monitored = 0
    /\ cur_x = I64_MIN
    /\ region15 = 0
    /\ answer15 = -1
    /\ pc15 = "start"
    /\ Only15

\* part_one up to the scan: the regions and the beacons of the row
PartOnePrepare15 ==
    /\ pc15 = "start"
    /\ regions' = DetectionsForRow(WithDistances(detections), SEARCH_Y)
    /\ beacons_in_row' = BeaconsInRow(detections)
    /\ pc15' = "scan"
    /\ UNCHANGED <<detections, monitored, cur_x, region15, answer15>>
    /\ UNCHANGED others15

\* part_one: one iteration of `for (left, right) in regions.iter()`
PartOneScan15 ==
    /\ pc15 = "scan" /\ region15 < Len(regions)
    /\ LET left == regions[region15 + 1][1]
           right == regions[region15 + 1][2]
       IN IF cur_x > right
          THEN UNCHANGED <<beacons_in_row, monitored, cur_x>>
          ELSE LET start == IF left > cur_x THEN left ELSE cur_x + 1
                   st == ScanRange([beacons |-> beacons_in_row,
                                    monitored |-> monitored], start, right)
               IN /\ beacons_in_row' = st.beacons
                  /\ monitored' = st.monitored
                  /\ cur_x' = right
    /\ region15' = region15 + 1
    /\ UNCHANGED <<detections, regions, answer15, pc15>>
    /\ UNCHANGED others15

\* part_one: Some(monitored)
PartOneReturn15 ==
    /\ pc15 = "scan" /\ region15 = Len(regions)
    /\ answer15' = monitored
    /\ pc15' = "done"
    /\ UNCHANGED <<detections, regions, beacons_in_row, monitored, cur_x,
                   region15>>
    /\ UNCHANGED others15

Next15 == PartOnePrepare15 \/ PartOneScan15 \/ PartOneReturn15

SpecDay15 == Init15 /\ [][Next15]_vars

\* The positions of row SEARCH_Y within the range of a sensor that hold no
\* beacon
CoveredNoBeacon(ds) ==
    {x \in -10..20 :
        /\ \E k \in 1..Len(ds) :
              Manhattan(ds[k].sensor, [x |-> x, y |-> SEARCH_Y])
                  <= Manhattan(ds[k].sensor, ds[k].beacon)
        /\ \A k \in 1..Len(ds) : ds[k].beacon # [x |-> x, y |-> SEARCH_Y]}

\* C10: part_one returns the number of positions of row SEARCH_Y that are
\* within the range of at least one sensor and hold no beacon.
C10_CountsCoveredNonBeacon ==
    pc15 = "done" => answer15 = Cardinality(CoveredNoBeacon(detections))

----------------------------------------------------------------------------
(* The shared grid helper (src/helpers.rs)                                 *)

Pt(x, y) == [x |-> x, y |-> y]

\* Grid::new: a flat array of width * (height + 1) default cells
GridNew(width, height, default) ==
    [values |-> [k \in 0..(width * (height + 1) - 1) |-> default],
     width |-> width]

\* the index used by Grid::point and Grid::point_mut
GridIndex(g, p) == g.width * p.y + p.x

\* Grid::point
GridPoint(g, p) == g.values[GridIndex(g, p)]

\* *Grid::point_mut(p) = v
GridSet(g, p, v) == [g EXCEPT !.values[GridIndex(g, p)] = v]

\* Grid::is_out_of_bounds
GridIsOutOfBounds(g, p) ==
    GridIndex(g, p) >= Cardinality(DOMAIN g.values)

\* Grid::width
GridWidth(g) == g.width

\* Grid::height
GridHeight(g) == Cardinality(DOMAIN g.values) \div g.width

----------------------------------------------------------------------------
(* Day 14: regolith reservoir                                              *)

\* static SPIGOT
SPIGOT == Pt(500, 0)

\* draw_grid with a floor: the grid is 1000 cells wider and starts 300
\* cells to the left of the leftmost rock
FloorExtraWidth == 1000
FloorLeftShift == 300

\* The cells of the segment from..to (horizontal or vertical)
SegmentCells(from, to) ==
    {Pt(x, y) : x \in Min(from.x, to.x)..Max(from.x, to.x),
                y \in Min(from.y, to.y)..Max(from.y, to.y)}

\* The cells of all paths of the input
RockCells(lines) ==
    UNION { UNION { SegmentCells(lines[l][k], lines[l][k + 1]) :
                    k \in 1..(Len(lines[l]) - 1) } : l \in 1..Len(lines) }

\* The points named in the input
InputPoints(lines) ==
    UNION { {lines[l][k] : k \in 1..Len(lines[l])} : l \in 1..Len(lines) }

SetMin(S) == CHOOSE m \in S : \A n \in S : m <= n
SetMax(S) == CHOOSE m \in S : \A n \in S : m >= n

\* draw_grid: the grid and the min_x that make_point subtracts
DrawGrid(lines, floor) ==
    LET xs == {p.x : p \in InputPoints(lines)}
        ys == {p.y : p \in InputPoints(lines)}
        max_y == IF floor THEN SetMax(ys) + 2 ELSE SetMax(ys)
        width0 == SetMax(xs) - SetMin(xs) + 1
        grid_width == IF floor THEN width0 + FloorExtraWidth ELSE width0
        min_x == IF floor THEN SetMin(xs) - FloorLeftShift ELSE SetMin(xs)
        empty == GridNew(grid_width, max_y, "Air")
        floorIdx == {GridIndex(empty, Pt(x, max_y)) :
                        x \in 0..(GridWidth(empty) - 1)}
        rockIdx == {GridIndex(empty, Pt(p.x - min_x, p.y)) :
                        p \in RockCells(lines)}
    IN [grid |-> [empty EXCEPT !.values =
                     [k \in DOMAIN empty.values |->
                         IF k \in floorIdx \cup rockIdx THEN "Rock"
                         ELSE "Air"]],
        min_x |-> min_x]

\* add_grain: the loop that moves one grain from `sand`; the result is
\* [out |-> TRUE] when the grain would leave the grid, else its rest point
RECURSIVE Fall(_, _)
Fall(g, sand) ==
    LET down == Pt(sand.x, sand.y + 1)
        right == Pt(sand.x + 1, sand.y + 1)
        outside(c) == c.x >= GridWidth(g) \/ c.y >= GridHeight(g)
        out == [out |-> TRUE, at |-> sand]
    IN IF outside(down) THEN out
       ELSE IF GridPoint(g, down) = "Air" THEN Fall(g, down)
       ELSE IF sand.x = 0 THEN out
       ELSE LET left == Pt(sand.x - 1, sand.y + 1)
            IN IF outside(left) THEN out
               ELSE IF GridPoint(g, left) = "Air" THEN Fall(g, left)
               ELSE IF outside(right) THEN out
               ELSE IF GridPoint(g, right) = "Air" THEN Fall(g, right)
               ELSE [out |-> FALSE, at |-> sand]

\* Inputs: one or two paths close to the spigot, whose columns include the
\* spigot's, and for part two also paths far to the right of it
Paths14 ==
    {<<Pt(499, 2), Pt(501, 2)>>, <<Pt(498, 4), Pt(502, 4)>>,
     <<Pt(500, 3), Pt(500, 4)>>, <<Pt(498, 2), Pt(498, 4), Pt(500, 4)>>,
     <<Pt(502, 1), Pt(502, 3)>>, <<Pt(496, 5), Pt(497, 5)>>,
     <<Pt(499, 3), Pt(501, 3)>>}
FarPaths14 ==
    {<<Pt(796, 2), Pt(797, 2)>>, <<Pt(797, 2), Pt(798, 2)>>,
     <<Pt(797, 1), Pt(797, 3)>>}

SpigotInside(lines) ==
    LET xs == {p.x : p \in InputPoints(lines)}
    IN SetMin(xs) <= SPIGOT.x /\ SPIGOT.x <= SetMax(xs)

Inputs14 ==
    {ls \in {<<a>> : a \in Paths14} \cup
            {<<a, b>> : a \in Paths14, b \in Paths14} :
        SpigotInside(ls)}

Init14 ==
    /\ \/ with_floor = FALSE /\ lines14 \in Inputs14
       \/ with_floor = TRUE
          /\ lines14 \in Inputs14 \cup {<<a>> : a \in FarPaths14}
    /\ grid = <<>>
    /\ min_x14 = 0
    /\ last_grain = <<>>
    /\ answer14 = -1
    /\ pc14 = "draw"
    /\ Only14

\* part_one / part_two: draw_grid(&lines, with_floor)
DrawGrid14 ==
    /\ pc14 = "draw"
    /\ LET d == DrawGrid(lines14, with_floor)
       IN grid' = d.grid /\ min_x14' = d.min_x
    /\ pc14' = "pour"
    /\ UNCHANGED <<lines14, with_floor, last_grain, answer14>>
    /\ UNCHANGED others14

\* one evaluation of `while add_grain(&mut grid, &make_point).is_some()`
AddGrain14 ==
    /\ pc14 = "pour"
    /\ LET sand == Pt(SPIGOT.x - min_x14, SPIGOT.y)
       IN IF GridPoint(grid, sand) # "Air"
          THEN /\ last_grain' = [some |-> FALSE, why |-> "spigot", at |-> sand]
               /\ pc14' = "count"
               /\ UNCHANGED grid
          ELSE LET f == Fall(grid, sand)
               IN IF f.out
                  THEN /\ last_grain' = [some |-> FALSE, why |-> "out", at |-> f.at]
                       /\ pc14' = "count"
                       /\ UNCHANGED grid
                  ELSE /\ last_grain' = [some |-> TRUE, why |-> "rest", at |-> f.at]
                       /\ grid' = GridSet(grid, f.at, "Sand")
                       /\ UNCHANGED pc14
    /\ UNCHANGED <<lines14, with_floor, min_x14, answer14>>
    /\ UNCHANGED others14

\* grid.iter().filter(|&space| *space == Space::Sand).count()
CountSand14 ==
    /\ pc14 = "count"
    /\ answer14' = Cardinality({k \in DOMAIN grid.values : grid.values[k] = "Sand"})
    /\ pc14' = "done"
    /\ UNCHANGED <<lines14, with_floor, grid, min_x14, last_grain>>
    /\ UNCHANGED others14

Next14 == DrawGrid14 \/ AddGrain14 \/ CountSand14

SpecDay14 == Init14 /\ [][Next14]_vars

\* Reference: the puzzle's cave, unbounded to the sides.  A cell is blocked
\* when it is occupied or, with a floor, lies on the floor row.
RefBlocked(occ, floor_y, c) == c \in occ \/ (floor_y >= 0 /\ c.y = floor_y)

\* Where a grain at p comes to rest; [void |-> TRUE] when it falls below
\* the lowest rock (there is nothing left to stop it)
RECURSIVE RefRest(_, _, _, _)
RefRest(occ, floor_y, lowest, p) ==
    LET down == Pt(p.x, p.y + 1)
        left == Pt(p.x - 1, p.y + 1)
        right == Pt(p.x + 1, p.y + 1)
    IN IF floor_y < 0 /\ p.y >= lowest THEN [void |-> TRUE, at |-> p]
       ELSE IF ~RefBlocked(occ, floor_y, down)
            THEN RefRest(occ, floor_y, lowest, down)
       ELSE IF ~RefBlocked(occ, floor_y, left)
            THEN RefRest(occ, floor_y, lowest, left)
       ELSE IF ~RefBlocked(occ, floor_y, right)
            THEN RefRest(occ, floor_y, lowest, right)
       ELSE [void |-> FALSE, at |-> p]

\* The number of grains at rest when the first grain falls into the void or
\* the source is filled
RECURSIVE RefPour(_, _, _, _)
RefPour(occ, floor_y, lowest, n) ==
    IF SPIGOT \in occ THEN n
    ELSE LET r == RefRest(occ, floor_y, lowest, SPIGOT)
         IN IF r.void THEN n
            ELSE RefPour(occ \cup {r.at}, floor_y, lowest, n + 1)

LowestRock(lines) == SetMax({p.y : p \in InputPoints(lines)})

\* The cave cell of a grid point
CaveCell(p) == Pt(p.x + min_x14, p.y)

\* The cells of the cave that hold sand
SandCells ==
    {Pt((k % grid.width) + min_x14, k \div grid.width) :
        k \in {j \in DOMAIN grid.values : grid.values[j] = "Sand"}}

\* C8: part_one returns the number of grains at rest before the first one
\* falls past the lowest rock, and every grain comes to rest on cells that
\* hold rock of the input or earlier sand.
C8_PartOneCountsRestingSand ==
    /\ (~with_floor /\ pc14 = "done")
          => answer14 = RefPour(RockCells(lines14), -1, LowestRock(lines14), 0)
    /\ (~with_floor /\ pc14 = "pour" /\ last_grain # <<>>)
          => \A dx \in {-1, 0, 1} :
                LET below == CaveCell(Pt(last_grain.at.x + dx,
                                         last_grain.at.y + 1))
                IN below \in RockCells(lines14) \cup SandCells

\* C9: in part two the pouring stops only because the source cell is
\* filled (never because a grain would leave the grid), and part_two
\* returns the number of grains of the complete pile.
C9_PartTwoStopsAtFilledSource ==
    (with_floor /\ pc14 = "done")
        => /\ last_grain.why = "spigot"
           /\ answer14 = RefPour(RockCells(lines14), LowestRock(lines14) + 2,
                                 LowestRock(lines14), 0)

----------------------------------------------------------------------------
(***************************************************************************)
(* Day 12: hill climbing                                                   *)
(***************************************************************************)

\* u32::MAX.  The value 4294967295 is above the integers of the model
\* checker; the code only stores and compares it (gs[cur] is finite for
\* every cur taken from the fringe), so the largest available integer
\* stands for it.
U32_MAX == 2147483647

\* Largest number of cells of the input changed with respect to a base map
MaxEdits12 == 1

Alphabet ==
    <<"a", "b", "c", "d", "e", "f", "g", "h", "i", "j", "k", "l", "m",
      "n", "o", "p", "q", "r", "s", "t", "u", "v", "w", "x", "y", "z">>

\* ch as u8, for a lower case letter
AsU8(ch) == 96 + CHOOSE i \in 1..26 : Alphabet[i] = ch

\* impl From<char> for PositionType
PositionTypeFrom(ch) ==
    IF ch = "S" THEN [t |-> "Start", x |-> 0]
    ELSE IF ch = "E" THEN [t |-> "End", x |-> 0]
    ELSE [t |-> "NotSpecial", x |-> AsU8(ch)]

\* PositionType::elevation
Elevation(pos) ==
    (CASE pos.t = "Start" -> AsU8("a")
       [] pos.t = "End" -> AsU8("z")
       [] OTHER -> pos.x) - AsU8("a")

IsStart(pos) == pos.t = "Start"
IsEnd(pos) == pos.t = "End"

\* fn can_move_to: to.saturating_sub(from) <= 1
CanMoveToNoDescent(from, to) == to - from <= 1 /\ from - to <= 1
CanMoveTo(from, to) == Max(to - from, 0) <= 1

\* Flattening of the lines of the input (flat_map), indexed from 0
RECURSIVE FlatMap(_)
FlatMap(rows) ==
    IF rows = <<>> THEN <<>> ELSE Head(rows) \o FlatMap(Tail(rows))

\* impl From<&str> for Map, with Map::new.  Inputs have at least two lines
\* of equal length and exactly one S and one E (anything else panics).
MapFrom(rows) ==
    LET flat == FlatMap(rows)
        elevations == [i \in 0..(Len(flat) - 1) |-> PositionTypeFrom(flat[i + 1])]
    IN [elevations |-> elevations,
        row_length |-> Len(rows[2]),
        start |-> CHOOSE i \in DOMAIN elevations : IsStart(elevations[i]),
        end |-> CHOOSE i \in DOMAIN elevations : IsEnd(elevations[i])]

MapLen(map) == Cardinality(DOMAIN map.elevations)

\* Map::adjacencies, the closure adjacent_points_for_point
AdjacentPointsForPoint(map, point) ==
    (IF point >= map.row_length THEN {point - map.row_length} ELSE {})
    \cup (IF (point + 1) % map.row_length # 0 THEN {point + 1} ELSE {})
    \cup (IF point < MapLen(map) - map.row_length
          THEN {point + map.row_length} ELSE {})
    \cup (IF point % map.row_length > 0 THEN {point - 1} ELSE {})

\* Map::adjacencies
Adjacencies(map) ==
    [i \in DOMAIN map.elevations |->
        {to \in AdjacentPointsForPoint(map, i) :
            CanMoveTo(Elevation(map.elevations[i]),
                      Elevation(map.elevations[to]))}]

\* Map::point
MapPoint(map, i) == [x |-> i % map.row_length, y |-> i \div map.row_length]

\* Map::manhattan_distance
ManhattanDistance(map, from, to) ==
    LET a == MapPoint(map, from)
        b == MapPoint(map, to)
    IN Abs(a.x - b.x) + Abs(a.y - b.y)

\* The start cells handed to astar_from_point by part_one and part_two
StartCells(map, part) ==
    IF part = 1 THEN {map.start}
    ELSE {point \in DOMAIN map.elevations :
            ~(IsEnd(map.elevations[point])
              \/ Elevation(map.elevations[point]) # 0)}

\* The example map of the puzzle (the one the tests read)
Example12 ==
    << <<"S", "a", "b", "q", "p", "o", "n", "m">>,
       <<"a", "b", "c", "r", "y", "x", "x", "l">>,
       <<"a", "c", "c", "s", "z", "E", "x", "k">>,
       <<"a", "c", "c", "t", "u", "v", "w", "j">>,
       <<"a", "b", "d", "e", "f", "g", "h", "i">> >>

\* A map whose only way up runs away from E and back
Snake12 ==
    << <<"S", "b", "c", "d", "e", "f", "g", "h", "i", "j", "k", "l", "m">>,
       <<"E", "y", "x", "w", "v", "u", "t", "s", "r", "q", "p", "o", "n">> >>

\* A map whose only way to E drops from e to c on its way
Cliff12 ==
    << <<"S", "b", "c", "d", "e", "c", "c", "d", "e", "f", "g", "h", "i", "j", "k">>,
       <<"E", "y", "x", "w", "v", "u", "t", "s", "r", "q", "p", "o", "n", "m", "l">> >>

BaseMaps12 == {Example12, Snake12, Cliff12}

\* The cells of a map that may be rewritten: every cell but S and E
Editable(rows) ==
    {rc \in (1..Len(rows)) \X (1..Len(rows[1])) :
        rows[rc[1]][rc[2]] \notin {"S", "E"}}

RECURSIVE ApplyEdits(_, _)
ApplyEdits(rows, edits) ==
    IF edits = {} THEN rows
    ELSE LET e == CHOOSE e \in edits : TRUE
         IN ApplyEdits([rows EXCEPT ![e[1][1]][e[1][2]] = e[2]],
                       edits \ {e})

\* The sets of at most k rewritings of distinct cells
RECURSIVE EditSets(_, _)
EditSets(rows, k) ==
    IF k = 0 THEN {{}}
    ELSE LET fewer == EditSets(rows, k - 1)
             all == Editable(rows) \X {Alphabet[i] : i \in 1..26}
         IN fewer \cup UNION {{es \cup {e} :
                                  e \in {e \in all : \A o \in es : o[1] # e[1]}} :
                               es \in fewer}

Inputs12 ==
    UNION {{ApplyEdits(rows, es) : es \in EditSets(rows, MaxEdits12)} :
           rows \in BaseMaps12}

Init12 ==
    /\ Only12
    /\ \E rows \in Inputs12 : map12 = MapFrom(rows)
    /\ part12 \in {1, 2}
    /\ fringe = {} /\ fs = <<>> /\ gs = <<>>
    /\ answer12 = -1
    /\ pc12 = "start"

\* astar_from_point up to the while loop
AstarStart12 ==
    /\ pc12 = "start"
    /\ LET from == StartCells(map12, part12)
       IN /\ fs' = [i \in DOMAIN map12.elevations |->
                      IF i \in from THEN ManhattanDistance(map12, i, map12.end)
                      ELSE U32_MAX]
          /\ gs' = [i \in DOMAIN map12.elevations |->
                      IF i \in from THEN 0 ELSE U32_MAX]
          /\ fringe' = from
    /\ pc12' = "loop"
    /\ UNCHANGED <<map12, part12, answer12, others12>>

\* One iteration of the while loop.  The fringe is a HashSet and the sort is
\* stable, so cur is any fringe point of least fs.
AstarStep12 ==
    /\ pc12 = "loop"
    /\ fringe # {}
    /\ \E cur \in fringe :
        /\ \A o \in fringe : fs[cur] <= fs[o]
        /\ \E gscore \in {gs[cur] + 1} :
           \E better \in {{n \in Adjacencies(map12)[cur] : gscore < gs[n]}} :
              /\ gs' = [i \in DOMAIN gs |-> IF i \in better THEN gscore ELSE gs[i]]
              /\ fs' = [i \in DOMAIN fs |->
                          IF i \in better
                          THEN gscore + ManhattanDistance(map12, i, map12.end)
                          ELSE fs[i]]
              /\ fringe' = (fringe \ {cur}) \cup better
    /\ UNCHANGED <<map12, part12, answer12, pc12, others12>>

\* The loop ends with an empty fringe: gs[map.end] is returned
AstarReturn12 ==
    /\ pc12 = "loop"
    /\ fringe = {}
    /\ answer12' = gs[map12.end]
    /\ pc12' = "done"
    /\ UNCHANGED <<map12, part12, fringe, fs, gs, others12>>

Next12 == AstarStart12 \/ AstarStep12 \/ AstarReturn12

SpecDay12 == Init12 /\ [][Next12]_vars

\* Reference: a breadth-first search on the cells as (x, y) positions.
\* A step goes to an orthogonally adjacent cell at most one higher.
RefStep12(map, a, b) ==
    LET pa == MapPoint(map, a)
        pb == MapPoint(map, b)
    IN /\ Abs(pa.x - pb.x) + Abs(pa.y - pb.y) = 1
       /\ Elevation(map.elevations[b]) <= Elevation(map.elevations[a]) + 1

RECURSIVE Bfs12(_, _, _, _)
Bfs12(map, visited, frontier, d) ==
    IF map.end \in frontier THEN d
    ELSE IF frontier = {} THEN U32_MAX
    ELSE LET nxt == {b \in DOMAIN map.elevations \ visited :
                        \E a \in frontier : RefStep12(map, a, b)}
         IN Bfs12(map, visited \cup nxt, nxt, d + 1)

ShortestPath12(map, from) == Bfs12(map, from, from, 0)

\* C3: astar_from_point returns the number of steps of a shortest path from
\* any of the start cells to End (steps go to orthogonally adjacent cells at
\* most one higher), the same as a breadth-first search, and u32::MAX when
\* End cannot be reached.
C3_AstarIsShortestPath ==
    pc12 = "done"
        => answer12 = ShortestPath12(map12, StartCells(map12, part12))

\* Part two has returned a path from one of several start cells that is
\* longer than the straight-line distance of every start cell
C3_Witness ==
    /\ pc12 = "done"
    /\ part12 = 2
    /\ Cardinality(StartCells(map12, part12)) > 1
    /\ answer12 < U32_MAX
    /\ \A s \in StartCells(map12, part12) :
          answer12 > ManhattanDistance(map12, s, map12.end)

----------------------------------------------------------------------------
(***************************************************************************)
(* Day 18: boiling boulders                                                *)
(***************************************************************************)

\* The range of i8, the type of the fields of Coord
I8_MIN == -128
I8_MAX == 127

\* The range of i32, the type of the bounds
I32_MIN == -2147483647 - 1
I32_MAX == 2147483647

\* Largest number of cubes taken out of the closed shell of an input
MaxRemoved18 == 2

\* An i8 result in a build without overflow checks: two's complement wrap
I8Wrap(v) == ((v - I8_MIN) % 256) + I8_MIN

I8Overflows(v) == v < I8_MIN \/ v > I8_MAX

\* impl Add for Coord, where the build does not check overflow
CoordAdd(a, b) == <<I8Wrap(a[1] + b[1]), I8Wrap(a[2] + b[2]), I8Wrap(a[3] + b[3])>>

\* impl Add for Coord panics in a build that checks overflow
CoordAddOverflows(a, b) ==
    \E i \in 1..3 : I8Overflows(a[i] + b[i])

\* impl Mul<i8> for Coord (rhs is -1 and the fields are -1, 0 or 1)
CoordMul(a, rhs) == <<a[1] * rhs, a[2] * rhs, a[3] * rhs>>

\* Coord::dot, in i32
Dot(a, b) == a[1] * b[1] + a[2] * b[2] + a[3] * b[3]

Signum(v) == IF v > 0 THEN 1 ELSE IF v < 0 THEN -1 ELSE 0

\* impl PartialEq for Plane
PlaneEq(p, q) ==
    LET dot == Dot(p.n, q.n)
    IN Abs(dot) = 1 /\ p.d = q.d * Signum(dot)

\* #[derive(PartialEq)] for BoundedPlane: the planes and then r0
BoundedPlaneEq(p, q) == PlaneEq(p.plane, q.plane) /\ p.r0 = q.r0

\* const PLANES: (offset of point in plane, normal vector)
PLANES ==
    << <<<<0, 0, 0>>, <<0, 0, -1>>>>,
       <<<<1, 0, 0>>, <<1, 0, 0>>>>,
       <<<<0, 0, 1>>, <<0, 0, 1>>>>,
       <<<<0, 0, 0>>, <<-1, 0, 0>>>>,
       <<<<0, 1, 0>>, <<0, 1, 0>>>>,
       <<<<0, 0, 0>>, <<0, -1, 0>>>> >>

\* all_planes: the six bounded planes of every cube, in the order of points
AllPlanes(points) ==
    [k \in 1..(6 * Len(points)) |->
        LET coord == points[((k - 1) \div 6) + 1]
            offset == PLANES[((k - 1) % 6) + 1][1]
            normal == PLANES[((k - 1) % 6) + 1][2]
            r0 == CoordAdd(coord, offset)
        IN [plane |-> [n |-> normal, d |-> Dot(CoordMul(normal, -1), r0)],
            r0 |-> r0]]

\* all_planes panics on an overflow of coord + offset
AllPlanesOverflows(points) ==
    \E k \in 1..Len(points) : \E j \in 1..6 :
        CoordAddOverflows(points[k], PLANES[j][1])

\* exterior_surface_area: the body of the loop for one plane, from the state
\* acc of seen and faces
SeenStep(acc, plane) ==
    IF \E j \in 1..Len(acc.seen) : BoundedPlaneEq(acc.seen[j], plane)
    THEN [seen |-> acc.seen, faces |-> acc.faces - 1]
    ELSE [seen |-> Append(acc.seen, plane), faces |-> acc.faces + 1]

\* exterior_surface_area: the loop over planes[lo..hi]
RECURSIVE SeenFold(_, _, _, _)
SeenFold(planes, lo, hi, acc) ==
    IF lo > hi THEN acc
    ELSE SeenStep(SeenFold(planes, lo, hi - 1, acc), planes[hi])

\* part_two: find_min_max for the three fields
FindMinMax(coords, i) ==
    LET vals == {coords[k][i] : k \in 1..Len(coords)}
    IN IF vals = {} THEN <<I32_MAX, I32_MIN>>
       ELSE <<SetMin(vals), SetMax(vals)>>

Bounds18(coords) ==
    [x_min |-> FindMinMax(coords, 1)[1], x_max |-> FindMinMax(coords, 1)[2],
     y_min |-> FindMinMax(coords, 2)[1], y_max |-> FindMinMax(coords, 2)[2],
     z_min |-> FindMinMax(coords, 3)[1], z_max |-> FindMinMax(coords, 3)[2]]

\* part_two: vec![false; ((x_max + 1) * (y_max + 1) * (z_max + 1)) as usize].
\* Without any cube the maxima are i32::MIN: the product overflows i32, a
\* panic where overflow is checked, and wraps to -2147483647 where it is
\* not, which as usize is a length above isize::MAX (capacity overflow).
StatesLenPanics(b) == b.x_max < 0 \/ b.y_max < 0 \/ b.z_max < 0

\* part_two: the closure pos is Some for a coordinate inside the bounds
PosIsSome(b, c) ==
    /\ c[1] >= b.x_min /\ c[1] <= b.x_max
    /\ c[2] >= b.y_min /\ c[2] <= b.y_max
    /\ c[3] >= b.z_min /\ c[3] <= b.z_max

\* part_two: the index the closure pos yields
Pos(b, c) ==
    c[3] * (b.x_max + 1) * (b.y_max + 1) + c[2] * (b.x_max + 1) + c[1]

\* part_two: the closure adjacents
Adjacents(c) ==
    << CoordAdd(c, <<0, 0, -1>>), CoordAdd(c, <<0, 0, 1>>),
       CoordAdd(c, <<1, 0, 0>>), CoordAdd(c, <<-1, 0, 0>>),
       CoordAdd(c, <<0, -1, 0>>), CoordAdd(c, <<0, 1, 0>>) >>

\* part_two: the closure adjacents panics on an overflow of x + 1, y + 1
\* or z + 1 in a build that checks overflow
AdjacentsOverflows(c) == \E i \in 1..3 : I8Overflows(c[i] + 1)

\* The filter with coordinates outside the bounds left out of the count
SurroundedIgnoringBounds(b, states, gap, coord) ==
    LET adj == Adjacents(coord)
        inside == {j \in 1..6 : PosIsSome(b, adj[j])}
    IN \A j \in inside : states[Pos(b, adj[j])] \/ adj[j] \in gap
\* part_two: the filter of the pruning loop.  A candidate stays when its six
\* adjacent coordinates are all inside the bounds and rock or candidates.
Surrounded(b, states, gap, coord) ==
    LET adj == Adjacents(coord)
        inside == {j \in 1..6 : PosIsSome(b, adj[j])}
        result == Cardinality({j \in inside :
                                 states[Pos(b, adj[j])] \/ adj[j] \in gap})
    IN result = 6

\* part_two: the rock faces a pocket touches
RockAdjacent(b, states, pocket) ==
    Cardinality({j \in 1..6 :
        /\ PosIsSome(b, Adjacents(pocket)[j])
        /\ states[Pos(b, Adjacents(pocket)[j])]})

\* The example of the puzzle (the one the tests read)
Example18 ==
    {<<2, 2, 2>>, <<1, 2, 2>>, <<3, 2, 2>>, <<2, 1, 2>>, <<2, 3, 2>>,
     <<2, 2, 1>>, <<2, 2, 3>>, <<2, 2, 4>>, <<2, 2, 6>>, <<1, 2, 5>>,
     <<3, 2, 5>>, <<2, 1, 5>>, <<2, 3, 5>>}

\* Two air cells and the ten cubes that close them in
Pocket18 == {<<1, 1, 1>>, <<1, 1, 2>>}
Shell18 ==
    {<<1, 1, 0>>, <<1, 1, 3>>, <<0, 1, 1>>, <<2, 1, 1>>, <<1, 0, 1>>,
     <<1, 2, 1>>, <<0, 1, 2>>, <<2, 1, 2>>, <<1, 0, 2>>, <<1, 2, 2>>}
Extras18 == Pocket18 \cup {<<0, 0, 0>>}
Shifts18 == {<<0, 0, 0>>, <<1, 2, 0>>}

\* No cube at all, and cubes that reach the largest value of i8
Edge18 == {{}, {<<127, 0, 0>>}, {<<0, 0, 127>>, <<0, 1, 127>>}}

\* The subsets of s with at most k elements
RECURSIVE SubsetsUpTo(_, _)
SubsetsUpTo(s, k) ==
    IF k = 0 THEN {{}}
    ELSE LET fewer == SubsetsUpTo(s, k - 1)
         IN fewer \cup UNION {{t \cup {e} : e \in s \ t} : t \in fewer}

Shift(cubes, by) == {<<c[1] + by[1], c[2] + by[2], c[3] + by[3]>> : c \in cubes}

CubeSets18 ==
    {Example18} \cup Edge18
    \cup {Shift((Shell18 \ rem) \cup ext, by) :
            rem \in SubsetsUpTo(Shell18, MaxRemoved18),
            ext \in SUBSET Extras18, by \in Shifts18}

\* The lines of an input, in some order: one cube per line
RECURSIVE Lines18(_)
Lines18(cubes) ==
    IF cubes = {} THEN <<>>
    ELSE LET c == CHOOSE c \in cubes : TRUE
         IN <<c>> \o Lines18(cubes \ {c})

Init18 ==
    /\ Only18
    /\ \E cubes \in CubeSets18 : coords18 = Lines18(cubes)
    /\ build18 \in {"debug", "release"}
    /\ bounds18 = <<>> /\ states18 = <<>> /\ faces18 = 0
    /\ seen18 = <<>> /\ cube18 = 0
    /\ possible_air_gap = {} /\ changed18 = FALSE
    /\ answer18 = -1
    /\ pc18 = "start"

\* part_two up to all_planes: the bounds, the states and the planes
Start18 ==
    /\ pc18 = "start"
    /\ \E b \in {Bounds18(coords18)} :
         /\ bounds18' = b
         /\ IF StatesLenPanics(b)
            THEN states18' = <<>> /\ pc18' = "panic"
            ELSE \E size \in {(b.x_max + 1) * (b.y_max + 1) * (b.z_max + 1)} :
                   /\ states18' =
                        [i \in 0..(size - 1) |->
                           \E k \in 1..Len(coords18) : Pos(b, coords18[k]) = i]
                   /\ pc18' = IF build18 = "debug" /\ AllPlanesOverflows(coords18)
                              THEN "panic" ELSE "area"
    /\ UNCHANGED <<coords18, build18, faces18, seen18, cube18,
                   possible_air_gap, changed18, answer18, others18>>

\* exterior_surface_area: the loop, for the six planes of the next cube
SurfaceArea18 ==
    /\ pc18 = "area"
    /\ cube18 < Len(coords18)
    /\ \E acc \in {SeenFold(AllPlanes(coords18), 6 * cube18 + 1, 6 * cube18 + 6,
                             [seen |-> seen18, faces |-> faces18])} :
         /\ seen18' = acc.seen
         /\ faces18' = acc.faces
    /\ cube18' = cube18 + 1
    /\ UNCHANGED <<coords18, build18, bounds18, states18, possible_air_gap,
                   changed18, answer18, pc18, others18>>

\* part_two: every cell of the bounds that is not rock is a candidate
Candidates18 ==
    /\ pc18 = "area"
    /\ cube18 = Len(coords18)
    /\ possible_air_gap' =
         {c \in (bounds18.x_min..bounds18.x_max)
                \X (bounds18.y_min..bounds18.y_max)
                \X (bounds18.z_min..bounds18.z_max) :
            ~states18[Pos(bounds18, c)]}
    /\ changed18' = TRUE
    /\ pc18' = "prune"
    /\ UNCHANGED <<coords18, build18, bounds18, states18, faces18, seen18,
                   cube18, answer18, others18>>

\* part_two: one iteration of the while loop
Prune18 ==
    /\ pc18 = "prune"
    /\ changed18
    /\ IF build18 = "debug" /\ \E c \in possible_air_gap : AdjacentsOverflows(c)
       THEN pc18' = "panic" /\ UNCHANGED <<possible_air_gap, changed18>>
       ELSE \E remaining \in {{coord \in possible_air_gap :
                    Surrounded(bounds18, states18, possible_air_gap, coord)}} :
              /\ changed18' = (Cardinality(possible_air_gap) # Cardinality(remaining))
              /\ possible_air_gap' = remaining
              /\ pc18' = "prune"
    /\ UNCHANGED <<coords18, build18, bounds18, states18, faces18, seen18,
                   cube18, answer18, others18>>

\* part_two: the faces of the pockets are taken off and faces is returned
Return18 ==
    /\ pc18 = "prune"
    /\ ~changed18
    /\ \E pockets \in {Lines18(possible_air_gap)} :
         faces18' = faces18
            - SeqSum([k \in 1..Len(pockets) |->
                        RockAdjacent(bounds18, states18, pockets[k])])
    /\ answer18' = faces18'
    /\ pc18' = "done"
    /\ UNCHANGED <<coords18, build18, bounds18, states18, seen18, cube18,
                   possible_air_gap, changed18, others18>>

Next18 == Start18 \/ SurfaceArea18 \/ Candidates18 \/ Prune18 \/ Return18

SpecDay18 == Init18 /\ [][Next18]_vars

\* Reference: a flood fill of the air from outside the bounding box.
Neighbours18(c) ==
    {<<c[1] + 1, c[2], c[3]>>, <<c[1] - 1, c[2], c[3]>>,
     <<c[1], c[2] + 1, c[3]>>, <<c[1], c[2] - 1, c[3]>>,
     <<c[1], c[2], c[3] + 1>>, <<c[1], c[2], c[3] - 1>>}

\* The bounding box of the cubes with one more layer on every side
Hull18(cubes) ==
    LET xs == {c[1] : c \in cubes}
        ys == {c[2] : c \in cubes}
        zs == {c[3] : c \in cubes}
    IN ((SetMin(xs) - 1)..(SetMax(xs) + 1))
       \X ((SetMin(ys) - 1)..(SetMax(ys) + 1))
       \X ((SetMin(zs) - 1)..(SetMax(zs) + 1))

RECURSIVE Flood18(_, _, _)
Flood18(air, reached, frontier) ==
    IF frontier = {} THEN reached
    ELSE LET nxt == (UNION {Neighbours18(c) : c \in frontier} \cap air) \ reached
         IN Flood18(air, reached \cup nxt, nxt)

\* The air of the hull connected to the outside of the bounding box
OutsideAir18(cubes) ==
    LET hull == Hull18(cubes)
        corner == <<SetMin({c[1] : c \in cubes}) - 1,
                    SetMin({c[2] : c \in cubes}) - 1,
                    SetMin({c[3] : c \in cubes}) - 1>>
    IN Flood18(hull \ cubes, {corner}, {corner})

\* The faces of the cubes that touch air connected to the outside
ExteriorFaces18(cubes) ==
    IF cubes = {} THEN 0
    ELSE LET outside == OutsideAir18(cubes)
         IN Cardinality({f \in cubes \X outside : f[2] \in Neighbours18(f[1])})

Cubes18 == {coords18[k] : k \in 1..Len(coords18)}

\* C5: for every set of distinct cubes with non-negative coordinates part_two
\* returns the number of cube faces that touch air connected to the outside
\* of the bounding box, the result of a flood fill from the outside.
C5_PartTwoIsFloodFill ==
    /\ pc18 # "panic"
    /\ pc18 = "done" => answer18 = ExteriorFaces18(Cubes18)

\* C5 as amended: the same, for at least one cube and coordinates of at most
\* 126, so that the far side of every cube is still an i8.
C5_PartTwoIsFloodFillBelowI8Max ==
    (Cubes18 # {} /\ \A c \in Cubes18 : \A i \in 1..3 : c[i] < I8_MAX)
        => /\ pc18 # "panic"
           /\ pc18 = "done" => answer18 = ExteriorFaces18(Cubes18)

\* part_two has returned for cubes that enclose air and leave other air of
\* the bounding box open: pockets were kept and candidates were pruned
C5_Witness ==
    /\ pc18 = "done"
    /\ \A c \in Cubes18 : \A i \in 1..3 : c[i] < I8_MAX
    /\ Cardinality(possible_air_gap) = 2
    /\ answer18 < faces18 + 10
    /\ answer18 = ExteriorFaces18(Cubes18)
    /\ bounds18.x_min > 0

----------------------------------------------------------------------------
(***************************************************************************)
(* Day 17: pyroclastic flow                                                *)
(***************************************************************************)

\* Shortest and longest jet pattern of the inputs
MinJets17 == 6
MaxJets17 == 7

\* Iterations of find_first_cycle that are followed (10_000 in the code)
MaxRocks17 == 72

\* Periods after cycle_end over which the targets N range
Periods17 == 2

\* static FALL_ORDER
FALL_ORDER == <<"HorizontalLine", "Plus", "Corner", "VerticalLine", "Square">>

\* Shape::starting_geometry: the points of the shape, moved by offset
StartingGeometry(shape, offset) ==
    LET cells ==
          CASE shape = "HorizontalLine" -> {<<x, 0>> : x \in 2..5}
            [] shape = "Plus" -> {<<3, y>> : y \in 0..2} \cup {<<x, 1>> : x \in 2..4}
            [] shape = "Corner" -> {<<x, 0>> : x \in 2..4} \cup {<<4, y>> : y \in 0..2}
            [] shape = "VerticalLine" -> {<<2, y>> : y \in 0..3}
            [] shape = "Square" -> (2..3) \X (0..1)
    IN {<<c[1] + offset[1], c[2] + offset[2]>> : c \in cells}

\* fn tree_contains_shape
TreeContainsShape(t, points) == \E point \in points : point \in t

\* fn max_height
MaxHeight(points) == SetMax({point[2] : point \in points}) + 1

\* drop_object without the tests for the chamber's walls
BlastThroughWall(t, shape, left, j, blast) ==
    IF blast = "<"
    THEN IF ~TreeContainsShape(t, StartingGeometry(shape, <<left - 1, j>>))
         THEN left - 1 ELSE left
    ELSE IF ~TreeContainsShape(t, StartingGeometry(shape, <<left + 1, j>>))
         THEN left + 1 ELSE left

\* drop_object: the jet blast at height j, with the shape at left
Blast(t, shape, left, j, blast) ==
    LET next_object == StartingGeometry(shape, <<left, j>>)
    IN IF blast = "<"
       THEN IF /\ ~\E point \in next_object : point[1] = 0
               /\ ~TreeContainsShape(t, StartingGeometry(shape, <<left - 1, j>>))
            THEN left - 1 ELSE left
       ELSE IF /\ ~\E point \in next_object : point[1] = 6
               /\ ~TreeContainsShape(t, StartingGeometry(shape, <<left + 1, j>>))
            THEN left + 1 ELSE left

\* drop_object: the loop from height j down, with the shape at left and
\* jets blasts already taken.  Yields the object, its max_height and the
\* number of blasts taken.
RECURSIVE DropLoop(_, _, _, _, _, _, _)
DropLoop(t, blasts, jets, shape, left, j, object) ==
    IF j < 0 THEN [object |-> object, max_height |-> MaxHeight(object), jets |-> jets]
    ELSE IF TreeContainsShape(t, StartingGeometry(shape, <<left, j>>))
    THEN [object |-> object, max_height |-> MaxHeight(object), jets |-> jets]
    ELSE LET moved == Blast(t, shape, left, j, blasts[(jets % Len(blasts)) + 1])
         IN DropLoop(t, blasts, jets + 1, shape, moved, j - 1,
                     StartingGeometry(shape, <<moved, j>>))

\* fn drop_object
DropObject(t, blasts, jets, start_height, shape) ==
    DropLoop(t, blasts, jets, shape, 0, start_height,
             StartingGeometry(shape, <<0, start_height>>))

\* find_first_cycle: the byte hashed for row y, bit x set for rock at (x, y)
RowByte(t, y) ==
    SeqSum([k \in 1..7 |-> IF <<k - 1, y>> \in t THEN 2 ^ (k - 1) ELSE 0])

\* find_first_cycle: the data fed to the hasher: the bytes of the rows
\* min_y..=last_max_height, shape_drop % 5 and jet_blast_count % len.  Two
\* states have the same u64 hash exactly when this data is the same, up to
\* collisions of the hasher.
StateHash(t, top, last_max_height, drop, jets, len) ==
    LET min_y == SetMin({top[k] : k \in 1..7})
    IN [rows |-> [k \in 1..(last_max_height - min_y + 1) |-> RowByte(t, min_y + k - 1)],
        shape |-> drop % 5,
        jet |-> jets % len]

\* find_first_cycle: top_rock_in_column after the points of object
TopRockInColumn(top, object) ==
    [k \in 1..7 |->
        LET ys == {point[2] : point \in {q \in object : q[1] = k - 1}}
        IN IF ys # {} /\ top[k] < SetMax(ys) THEN SetMax(ys) ELSE top[k]]

\* part_two: the height computed from the cycle, for TARGET rocks
PartTwoAnswer(TARGET, cycle_end, cycle_start, cycle_step_heights) ==
    LET cycle_length == Abs(cycle_end - cycle_start)
        steps_remaining == TARGET - cycle_end
        cycles_remaining == steps_remaining \div cycle_length
        cycle_height_change ==
            cycles_remaining * (cycle_step_heights[cycle_end + 1]
                                - cycle_step_heights[cycle_start + 1])
        partial_cycle == TARGET - (cycles_remaining * cycle_length) - cycle_end
        partial_cycle_height_change ==
            cycle_step_heights[cycle_start + partial_cycle + 1]
            - cycle_step_heights[cycle_start + 1]
    IN cycle_step_heights[Len(cycle_step_heights)] + cycle_height_change
       + partial_cycle_height_change

\* The example of the puzzle (the one the tests read)
Example17 ==
    <<">", ">", ">", "<", "<", ">", "<", ">", ">", "<", "<", "<", ">", ">",
      "<", ">", ">", ">", "<", "<", "<", ">", ">", ">", "<", "<", "<", ">",
      "<", "<", "<", ">", ">", "<", ">", ">", "<", "<", ">", ">">>

\* A pattern whose first repeated hash is not a repeated state
FalseCycle17 ==
    <<"<", ">", ">", ">", ">", ">", "<", ">", ">", ">", "<", "<", "<", "<">>

Inputs17 ==
    {Example17, FalseCycle17}
    \cup UNION {[1..n -> {"<", ">"}] : n \in MinJets17..MaxJets17}

Init17 ==
    /\ Only17
    /\ directions \in Inputs17
    /\ pc17 = "search"
    /\ tree = {} /\ jet_blast_count = 0
    /\ top_rock_in_column = [k \in 1..7 |-> 0]
    /\ states17 = <<>>
    /\ step_max_heights = <<0>>
    /\ shape_drop = 0
    /\ cycle17 = <<>>
    /\ p1_tree = {} /\ p1_jets = 0 /\ p1_max_height = 0 /\ p1_i = 0

\* find_first_cycle: one iteration of the loop over shape_drop
FindFirstCycleStep ==
    /\ pc17 = "search"
    /\ shape_drop < MaxRocks17
    /\ \E last_max_height \in {step_max_heights[Len(step_max_heights)]} :
       \E r \in {DropObject(tree, directions, jet_blast_count, last_max_height + 3,
                            FALL_ORDER[(shape_drop % 5) + 1])} :
       \E top \in {TopRockInColumn(top_rock_in_column, r.object)} :
       \E hash \in {StateHash(tree \cup r.object, top, last_max_height, shape_drop,
                              r.jets, Len(directions))} :
          /\ tree' = tree \cup r.object
          /\ top_rock_in_column' = top
          /\ jet_blast_count' = r.jets
          /\ IF \E k \in 1..Len(states17) : states17[k] = hash
             THEN /\ cycle17' = [cycle_end |-> shape_drop,
                                 cycle_start |-> (CHOOSE k \in 1..Len(states17) :
                                                    states17[k] = hash) - 1]
                  /\ pc17' = "direct"
                  /\ UNCHANGED <<states17, step_max_heights, shape_drop>>
             ELSE /\ states17' = Append(states17, hash)
                  /\ step_max_heights' =
                       Append(step_max_heights, Max(r.max_height, last_max_height))
                  /\ shape_drop' = shape_drop + 1
                  /\ UNCHANGED <<cycle17, pc17>>
    /\ UNCHANGED <<directions, p1_tree, p1_jets, p1_max_height, p1_i, others17>>

\* The rocks dropped by the direct simulation: up to Periods17 periods
\* after cycle_end
Target17 ==
    cycle17.cycle_end + Periods17 * (cycle17.cycle_end - cycle17.cycle_start)

\* part_one: one iteration of the loop over i, the direct simulation
PartOneDrop17 ==
    /\ pc17 = "direct"
    /\ p1_i < Target17
    /\ \E r \in {DropObject(p1_tree, directions, p1_jets, p1_max_height + 3,
                            FALL_ORDER[(p1_i % 5) + 1])} :
          /\ p1_tree' = p1_tree \cup r.object
          /\ p1_jets' = r.jets
          /\ p1_max_height' = Max(r.max_height, p1_max_height)
    /\ p1_i' = p1_i + 1
    /\ UNCHANGED <<directions, pc17, tree, jet_blast_count, top_rock_in_column,
                   states17, step_max_heights, shape_drop, cycle17, others17>>

\* part_one: the loop is over, max_height is returned
PartOneReturn17 ==
    /\ pc17 = "direct"
    /\ p1_i = Target17
    /\ pc17' = "done"
    /\ UNCHANGED <<directions, tree, jet_blast_count, top_rock_in_column,
                   states17, step_max_heights, shape_drop, cycle17, p1_tree,
                   p1_jets, p1_max_height, p1_i, others17>>

Next17 == FindFirstCycleStep \/ PartOneDrop17 \/ PartOneReturn17

SpecDay17 == Init17 /\ [][Next17]_vars

\* C4: whenever find_first_cycle reports a cycle, the height computed from
\* it for N rocks equals the height of the tower after directly simulating
\* N rocks with drop_object, for every N >= cycle_end.
C4_CycleHeightIsDirectHeight ==
    (pc17 \in {"direct", "done"} /\ p1_i >= cycle17.cycle_end)
        => PartTwoAnswer(p1_i, cycle17.cycle_end, cycle17.cycle_start,
                         step_max_heights) = p1_max_height

\* The rock that turned the tower `before` into the tower `after` has settled
\* properly: the earlier rocks are still there, all its cells are new ones
\* (none is a cell of an earlier rock), they lie within 0 <= x <= 6 and
\* y >= 0, and one step further down the rock would be in the floor or in
\* an earlier rock.
SettledProperly(before, after, shape) ==
    LET object == after \ before
    IN  /\ before \subseteq after
        /\ Cardinality(object) = Cardinality(StartingGeometry(shape, <<0, 0>>))
        /\ \A c \in object : c[1] >= 0 /\ c[1] <= 6 /\ c[2] >= 0
        /\ \E c \in object : c[2] = 0 \/ <<c[1], c[2] - 1>> \in before

\* C13: every rock dropped with drop_object, in the loop of part_one and in
\* the loop of find_first_cycle, settles within 0 <= x <= 6 and y >= 0, on
\* no cell of an earlier rock, at a position from which one more step down
\* would hit the floor or another rock, and the height of the tower does
\* not decrease from one rock to the next.
C13_RocksSettleProperly ==
    [][/\ p1_i' # p1_i =>
            /\ SettledProperly(p1_tree, p1_tree', FALL_ORDER[(p1_i % 5) + 1])
            /\ p1_max_height' >= p1_max_height
       /\ jet_blast_count' # jet_blast_count =>
            /\ SettledProperly(tree, tree', FALL_ORDER[(shape_drop % 5) + 1])
            /\ \A k \in 2..Len(step_max_heights') :
                    step_max_heights'[k] >= step_max_heights'[k - 1]]_vars

\* Rocks have been pushed against both walls, rest on the floor and on
\* other rocks, and the tower has grown above the first rocks.
C13_Witness ==
    /\ pc17 = "direct" /\ p1_i >= 10
    /\ \E c \in p1_tree : c[1] = 0
    /\ \E c \in p1_tree : c[1] = 6
    /\ \E c \in p1_tree : c[2] = 0
    /\ p1_max_height >= 10

----------------------------------------------------------------------------
(* The shared grid helper exercised on its own: a Grid<bool> is built by   *)
(* Grid::new, two points are tested with is_out_of_bounds, the first is    *)
(* written through point_mut and the second read back through point.       *)

MaxWidth00 == 3
MaxHeight00 == 2
MaxCoord00 == 4

\* struct Point: both fields are usize
Points00 == {Pt(x, y) : x \in 0..MaxCoord00, y \in 0..MaxCoord00}

\* values.len()
GridLen(g) == Cardinality(DOMAIN g.values)

Init00 ==
    /\ Only00
    /\ new_width \in 1..MaxWidth00
    /\ new_height \in 0..MaxHeight00
    /\ hgrid = [values |-> <<>>, width |-> 0]
    /\ probe_p = Pt(0, 0) /\ probe_q = Pt(0, 0)
    /\ oob_p = FALSE /\ oob_q = FALSE /\ read_q = FALSE
    /\ pc00 = "new"

\* let grid: Grid<bool> = Grid::new(width, height)
New00 ==
    /\ pc00 = "new"
    /\ hgrid' = GridNew(new_width, new_height, FALSE)
    /\ pc00' = "probe"
    /\ UNCHANGED <<new_width, new_height, probe_p, probe_q, oob_p, oob_q,
                   read_q>>
    /\ UNCHANGED others00

\* grid.is_out_of_bounds(&p), grid.is_out_of_bounds(&q)
IsOutOfBounds00 ==
    /\ pc00 = "probe"
    /\ \E p \in Points00, q \in Points00 :
        /\ probe_p' = p
        /\ probe_q' = q
        /\ oob_p' = GridIsOutOfBounds(hgrid, p)
        /\ oob_q' = GridIsOutOfBounds(hgrid, q)
    /\ pc00' = "write"
    /\ UNCHANGED <<new_width, new_height, hgrid, read_q>>
    /\ UNCHANGED others00

\* *grid.point_mut(&p) = true; indexing the Vec past its end panics
PointMut00 ==
    /\ pc00 = "write"
    /\ IF GridIndex(hgrid, probe_p) >= GridLen(hgrid)
       THEN /\ pc00' = "panic"
            /\ UNCHANGED hgrid
       ELSE /\ hgrid' = GridSet(hgrid, probe_p, TRUE)
            /\ pc00' = "read"
    /\ UNCHANGED <<new_width, new_height, probe_p, probe_q, oob_p, oob_q,
                   read_q>>
    /\ UNCHANGED others00

\* *grid.point(&q); indexing the Vec past its end panics
Point00 ==
    /\ pc00 = "read"
    /\ IF GridIndex(hgrid, probe_q) >= GridLen(hgrid)
       THEN /\ pc00' = "panic"
            /\ UNCHANGED read_q
       ELSE /\ read_q' = GridPoint(hgrid, probe_q)
            /\ pc00' = "done"
    /\ UNCHANGED <<new_width, new_height, hgrid, probe_p, probe_q, oob_p,
                   oob_q>>
    /\ UNCHANGED others00

Next00 == New00 \/ IsOutOfBounds00 \/ PointMut00 \/ Point00

SpecHelpers == Init00 /\ [][Next00]_vars

\* the rectangle 0 <= x < width(), 0 <= y < height() of the grid
OutsideRectangle(g, p) == p.x >= GridWidth(g) \/ p.y >= GridHeight(g)

\* C11: is_out_of_bounds(p) is true exactly when p.x >= width() or
\* p.y >= height(), and two distinct points that it accepts are two distinct
\* cells: a write through point_mut to one is not seen through point at the
\* other, whose cell still holds the default value.
C11_OutOfBoundsIsOutsideRectangle ==
    /\ pc00 \in {"write", "read", "done", "panic"} =>
        /\ oob_p <=> OutsideRectangle(hgrid, probe_p)
        /\ oob_q <=> OutsideRectangle(hgrid, probe_q)
    /\ (pc00 = "done" /\ probe_p # probe_q) => read_q = FALSE

\* C14: Grid::new(width, height) gives width() == width, height() == height
\* and exactly width * height addressable cells.
C14_NewHasWidthTimesHeightCells ==
    pc00 \notin {"idle", "new"} =>
        /\ GridWidth(hgrid) = new_width
        /\ GridHeight(hgrid) = new_height
        /\ GridLen(hgrid) = new_width * new_height

----------------------------------------------------------------------------
(* Day 24: blizzard basin                                                  *)
(* A line of the input is kept as the characters between its left and     *)
(* right wall.  Puzzle.blizzards is kept as the set of (x, y, direction):  *)
(* solve only reads whether the Vec of a cell is empty.  A Vec of          *)
(* reachability holds strictly increasing step numbers and solve reads     *)
(* only whether it holds the latest one and whether it is empty, so a cell *)
(* is "now", "old" or "none".                                              *)

MaxWidth24 == 2
MaxHeight24 == 2
MaxSteps24 == 30

\* impl TryFrom<char> for BlizzardDirection
BlizzardDirectionFrom(ch) ==
    CASE ch = "<" -> "Left"
      [] ch = ">" -> "Right"
      [] ch = "^" -> "Up"
      [] ch = "v" -> "Down"

\* parse: result, with (col, row) counted from the first cell of the valley
ParseBlizzards(lines) ==
    {<<c - 1, r - 1, BlizzardDirectionFrom(lines[r][c])>> :
        <<r, c>> \in {rc \in (DOMAIN lines) \X (1..MaxWidth24 + 4) :
                        /\ rc[2] \in DOMAIN lines[rc[1]]
                        /\ lines[rc[1]][rc[2]] # "."}}

\* parse: width is assigned col + 1 at every blizzard and skipped at every
\* '.', so it ends as the column after the last blizzard of the last line
\* that has one, and stays 0 without blizzards
ParseWidth(lines) ==
    LET rows == {r \in DOMAIN lines :
                    \E c \in DOMAIN lines[r] : lines[r][c] # "."}
    IN  IF rows = {} THEN 0
        ELSE LET r == CHOOSE r \in rows : \A o \in rows : o <= r
             IN  CHOOSE c \in DOMAIN lines[r] :
                    /\ lines[r][c] # "."
                    /\ \A o \in DOMAIN lines[r] : lines[r][o] # "." => o <= c

\* parse: height = row + 1 of the last line
ParseHeight(lines) == Len(lines)

\* step_blizzards: resolve_dimension
ResolveDimension(cur, max) ==
    IF cur < 0 THEN max - 1 ELSE IF cur >= max THEN 0 ELSE cur

\* step_blizzards: resolve
Resolve(dims, x, y) ==
    IF (x = 0 /\ y = -1) \/ (x = dims[1] - 1 /\ y = dims[2])
    THEN <<x, y>>
    ELSE IF x = 0 /\ y = dims[2]
    THEN <<0, -1>>
    ELSE <<ResolveDimension(x, dims[1]), ResolveDimension(y, dims[2])>>

\* step_blizzards: the move of one blizzard
MoveBlizzard(dims, b) ==
    LET to == CASE b[3] = "Up" -> Resolve(dims, b[1], b[2] - 1)
                [] b[3] = "Down" -> Resolve(dims, b[1], b[2] + 1)
                [] b[3] = "Left" -> Resolve(dims, b[1] - 1, b[2])
                [] b[3] = "Right" -> Resolve(dims, b[1] + 1, b[2])
    IN  <<to[1], to[2], b[3]>>

\* Puzzle::step_blizzards
StepBlizzards(bs, dims) == {MoveBlizzard(dims, b) : b \in bs}

\* solve: the cell of the portal where the walk starts
StartCell(start, dims) ==
    IF start = "TopLeft" THEN <<0, -1>> ELSE <<dims[1] - 1, dims[2]>>

\* solve: the cell of the opposite portal
EndCell(start, dims) ==
    IF start = "TopLeft" THEN <<dims[1] - 1, dims[2]>> ELSE <<0, -1>>

\* ValleyPortal::other
Other(start) == IF start = "TopLeft" THEN "BottomRight" ELSE "TopLeft"

\* solve: for row in -1..height + 1, for col in 0..width
LoopCells(dims) ==
    {<<col, row>> : col \in 0..(dims[1] - 1), row \in -1..dims[2]}

\* solve: the filter on the candidates
Permitted(dims, c) ==
    \/ c[1] = 0 /\ c[2] = -1
    \/ c[1] = dims[1] - 1 /\ c[2] = dims[2]
    \/ c[1] >= 0 /\ c[1] < dims[1] /\ c[2] >= 0 /\ c[2] < dims[2]

\* solve: candidates
Candidates24(c) ==
    {c, <<c[1] - 1, c[2]>>, <<c[1] + 1, c[2]>>, <<c[1], c[2] - 1>>,
     <<c[1], c[2] + 1>>}

\* reachability.entry(c).or_default().contains(&(steps - 1))
HoldsLast(r, c) == c \in DOMAIN r /\ r[c] = "now"

\* solve: is_reachable
IsReachable(r, dims, c) ==
    \E k \in Candidates24(c) : Permitted(dims, k) /\ HoldsLast(r, k)

\* self.blizzards.entry((col, row)).or_default().len() > 0
BlizzardAt(bs, c) == \E b \in bs : b[1] = c[1] /\ b[2] = c[2]

\* The puzzle's example
Example24 ==
    << <<">", ">", ".", "<", "^", "<">>,
       <<".", "<", ".", ".", "<", "<">>,
       <<">", "v", ".", ">", "<", ">">>,
       <<"<", "^", "v", "^", "^", ">">> >>

\* The valleys: the example and every valley of 2..MaxWidth24 columns and
\* 1..MaxHeight24 lines (the bottom wall of a valley of one column does not
\* start with "##")
Inputs24 ==
    {Example24} \cup
    UNION {[1..h -> [1..w -> {".", "<", ">", "^", "v"}]] :
            <<w, h>> \in (2..MaxWidth24) \X (1..MaxHeight24)}

Init24 ==
    /\ Only24
    /\ input24 \in Inputs24
    /\ part24 \in {1, 2}
    /\ blizzards = {} /\ dimensions = <<0, 0>>
    /\ start24 = "TopLeft" /\ reachability = <<>>
    /\ steps = 0 /\ pass24 = 0 /\ steps_sum = 0 /\ answer24 = -1
    /\ pc24 = "parse"

\* part_one / part_two: parse(input) and the construction of the Puzzle
Parse24 ==
    /\ pc24 = "parse"
    /\ blizzards' = ParseBlizzards(input24)
    /\ dimensions' = <<ParseWidth(input24), ParseHeight(input24)>>
    /\ pc24' = "solve"
    /\ UNCHANGED <<input24, part24, start24, reachability, steps, pass24,
                   steps_sum, answer24>>
    /\ UNCHANGED others24

\* solve up to the loop: the start portal is reachable at step 0
Solve24 ==
    /\ pc24 = "solve"
    /\ reachability' =
        [c \in LoopCells(dimensions)
                \cup {StartCell(start24, dimensions),
                      EndCell(start24, dimensions)} |->
            IF c = StartCell(start24, dimensions) THEN "now" ELSE "none"]
    /\ steps' = 0
    /\ pc24' = "loop"
    /\ UNCHANGED <<input24, part24, blizzards, dimensions, start24, pass24,
                   steps_sum, answer24>>
    /\ UNCHANGED others24

\* solve: one iteration of the loop.  steps is exact up to MaxSteps24; past
\* it only its parity is kept, so that an iteration still changes steps
SolveLoop24 ==
    /\ pc24 = "loop"
    /\ steps' = IF steps < MaxSteps24 THEN steps + 1 ELSE MaxSteps24 - 1
    /\ \E bs \in {StepBlizzards(blizzards, dimensions)} :
        /\ blizzards' = bs
        /\ reachability' =
            [c \in DOMAIN reachability |->
                IF /\ c \in LoopCells(dimensions)
                   /\ ~BlizzardAt(bs, c)
                   /\ IsReachable(reachability, dimensions, c)
                THEN "now"
                ELSE IF reachability[c] = "none" THEN "none" ELSE "old"]
    /\ pc24' = IF reachability'[EndCell(start24, dimensions)] # "none"
               THEN "return" ELSE "loop"
    /\ UNCHANGED <<input24, part24, dimensions, start24, pass24, steps_sum,
                   answer24>>
    /\ UNCHANGED others24

\* solve returns Some(steps): part_one returns it, part_two adds it up and
\* solves from the other portal until three passes are done
SolveReturn24 ==
    /\ pc24 = "return"
    /\ IF part24 = 1
       THEN /\ answer24' = steps
            /\ pc24' = "done"
            /\ UNCHANGED <<start24, pass24, steps_sum>>
       ELSE /\ steps_sum' = steps_sum + steps
            /\ start24' = Other(start24)
            /\ pass24' = pass24 + 1
            /\ IF pass24 + 1 = 3
               THEN answer24' = steps_sum + steps /\ pc24' = "done"
               ELSE answer24' = answer24 /\ pc24' = "solve"
    /\ UNCHANGED <<input24, part24, blizzards, dimensions, reachability,
                   steps>>
    /\ UNCHANGED others24

Next24 == Parse24 \/ Solve24 \/ SolveLoop24 \/ SolveReturn24

SpecDay24 == Init24 /\ [][Next24]_vars

\* The program is one thread that keeps running until it returns
SpecDay24Fair == SpecDay24 /\ WF_vars(Next24)

\* C12: for every parsed valley the loop of solve eventually marks the
\* opposite portal reachable and returns, so part_one and part_two return.
C12_SolveTerminates == <>(pc24 = "done")

============================================================================
